---- MODULE Spec2Model ----
(***************************************************************************)
(* The pipeline coordinator of the Vibe Coding System (src/main.py) and    *)
(* the stage executors it drives (src/agents/*.py).                        *)
(*                                                                         *)
(* One step of a pipeline task is the code that runs between two           *)
(* suspension points (awaits) of the coroutine process_project_request:    *)
(* the event loop is single threaded, so such a segment is atomic.         *)
(* progress is kept in tenths (0.1 is 1, 1.0 is 10).                       *)
(***************************************************************************)
EXTENDS Integers, Sequences, FiniteSets, TLC

\* ------------------------------------------------------------------ bounds
\* submissions a run explores
MaxProjects == 1

\* the identifiers uuid4 may issue: one more than Spec ever submits, so that
\* an identifier that was never issued exists in every state
Ids == 1..(MaxProjects + 1)

\* project names a client may submit, and the messages a failure may carry
Names == {"demo", "shop"}
Msgs == {"", "adapter failed"}

\* ------------------------------------------------------------- vocabulary
Absent == "<absent>"
NoFailure == "<none>"
MissingDocument == "missing document"
KeyErrorMessage == "KeyError"

\* a plan the model returned without a "project_name" key (the prompt's
\* schema has none), and the plans it may return for a request: the key is
\* left out or echoes the name the prompt gave
NoProjectName == "<no project_name>"
Plans(name) == {name, NoProjectName}

Stages ==
    <<"plan", "architecture", "frontend", "backend", "ai", "documentation", "finalize">>

StageSet == {Stages[i] : i \in 1..Len(Stages)}

RequestKeys ==
    {"description", "frontend_framework", "backend_framework", "database",
     "include_ai", "deployment_target"}

ArtifactKeys ==
    {"project_plan", "architecture", "frontend_results", "backend_results",
     "ai_results", "doc_results", "final_report"}

DetailKeys == RequestKeys \cup {"created_files", "error"} \cup ArtifactKeys

\* the storage namespace create_architecture falls back to when the plan the
\* model returned carries no "project_name"
FallbackNamespace(id) == "project_" \o ToString(id)

Namespaces == Names \cup {FallbackNamespace(i) : i \in Ids}

Documents ==
    {"project_plan.json", "architecture.json", "frontend/src",
     "frontend/package.json", "frontend/frontend_results.json", "backend/src",
     "ai/ai_results.json", "docs/doc_results.json", "final_report.json",
     "README.md"}

BoolText(b) == IF b THEN "true" ELSE "false"

VARIABLES
    active_projects,  \* the identifiers that are keys of the registry
    records,          \* the record object behind each identifier
    nextId,           \* identifiers issued so far, plus one
    request,          \* the request a pipeline task was scheduled with
    pc,               \* where each pipeline task is suspended
    project_plan,     \* the task's local project_plan: its "project_name"
    fs,               \* storage: per namespace, the documents and who wrote them
    calls,            \* history: the stage executors invoked, in order
    returned,         \* history: the stage executors that returned a result
    persisted,        \* history: the stages whose result document was written
    statusTrace,      \* history: every value assigned to record["status"]
    progressTrace,    \* history: every value assigned to record["progress"]
    raised,           \* history: the message of the failure the task raised
    caught,           \* history: how often the except clause ran
    registeredAtFailure, \* history: was the record registered when it failed
    docsAiArg,        \* history: the ai_results argument documentation got
    recordAtInvoke,   \* history: the record as it was when the last stage was invoked
    deleted,          \* history: the identifiers a delete removed
    response,         \* what the request handled by the last step returned
    agent,            \* a stage executor on its own: which one runs
    agent_pc,         \* where it is in implement_frontend / implement_backend
    tasks,            \* the tasks it was given
    sorted_tasks,     \* its local sorted_tasks
    cursor,           \* the position of its loop in sorted_tasks
    completed_tasks,  \* results["completed_tasks"]
    task_results,     \* history: what _process_task returned, call by call
    agent_raised,     \* the exception that left the executor, if one did
    document,         \* the normalizer on its own: the document a response is made of
    wrapping,         \* how the response wraps the document's text
    damage,           \* what the response did to the text before wrapping it
    normalizer_pc,    \* where the caller of the normalizer is
    response_text,    \* the text the normalizer is given
    json_string,      \* what clean_json_string made of it
    parsed            \* what parse_json_string returned, or its failure

vars ==
    <<active_projects, records, nextId, request, pc, project_plan, fs, calls,
      returned, persisted, statusTrace, progressTrace, raised, caught,
      registeredAtFailure, docsAiArg, recordAtInvoke, deleted, response,
      agent, agent_pc, tasks, sorted_tasks, cursor, completed_tasks,
      task_results, agent_raised, document, wrapping, damage, normalizer_pc,
      response_text, json_string, parsed>>

\* the state of an executor and of the normalizer run on their own
units ==
    <<agent, agent_pc, tasks, sorted_tasks, cursor, completed_tasks,
      task_results, agent_raised, document, wrapping, damage, normalizer_pc,
      response_text, json_string, parsed>>

pipeline ==
    <<active_projects, records, nextId, request, pc, project_plan, fs, calls,
      returned, persisted, statusTrace, progressTrace, raised, caught,
      registeredAtFailure, docsAiArg, recordAtInvoke, deleted, response>>

history ==
    <<calls, returned, persisted, raised, caught, registeredAtFailure,
      docsAiArg, recordAtInvoke>>

\* --------------------------------------------------------------- records
NoRecord ==
    [name |-> Absent, status |-> Absent, progress |-> 0,
     details |-> [k \in DetailKeys |-> Absent]]

NoRequest == [project_name |-> Absent, include_ai |-> FALSE]

\* the record create_project builds
NewRecord(name, include_ai) ==
    [name |-> name, status |-> "initializing", progress |-> 0,
     details |-> [k \in DetailKeys |->
        CASE k = "include_ai" -> BoolText(include_ai)
          [] k = "created_files" -> "[]"
          [] k \in RequestKeys -> "given"
          [] OTHER -> Absent]]

Has(id, key) == records[id].details[key] # Absent

\* --------------------------------------------------------------- storage
\* FileManager.write_json / write_file: the document replaces an earlier one
WriteDoc(store, ns, doc, writer) ==
    [store EXCEPT ![ns] = {e \in @ : e[1] # doc} \cup {<<doc, writer>>}]

\* fault: a directory that holds documents is left as it is
RemoveTreeIfEmpty(store, ns) == store

\* shutil.rmtree of a namespace
RemoveTree(store, ns) == [store EXCEPT ![ns] = {}]

HasDoc(store, ns, doc) == \E e \in store[ns] : e[1] = doc

\* ------------------------------------------------------------- responses
NoBody ==
    [status |-> Absent, progress |-> 0,
     details |-> [k \in DetailKeys |-> Absent], download_path |-> Absent]

NoResponse == [op |-> "none", id |-> 0, code |-> 0, body |-> NoBody]

\* HTTPException(status_code=404, detail="Project not found")
NotFound(op, id) == [op |-> op, id |-> id, code |-> 404, body |-> NoBody]

\* HTTPException(status_code=400, detail="Project not ready for download")
NotReady(op, id) == [op |-> op, id |-> id, code |-> 400, body |-> NoBody]

Ok(op, id, body) == [op |-> op, id |-> id, code |-> 200, body |-> body]

\* no request was made yet
InitPipeline ==
    /\ active_projects = {}
    /\ records = [i \in Ids |-> NoRecord]
    /\ nextId = 1
    /\ request = [i \in Ids |-> NoRequest]
    /\ pc = [i \in Ids |-> "unscheduled"]
    /\ project_plan = [i \in Ids |-> Absent]
    /\ fs = [ns \in Namespaces |-> {}]
    /\ calls = [i \in Ids |-> <<>>]
    /\ returned = [i \in Ids |-> <<>>]
    /\ persisted = [i \in Ids |-> {}]
    /\ statusTrace = [i \in Ids |-> <<>>]
    /\ progressTrace = [i \in Ids |-> <<>>]
    /\ raised = [i \in Ids |-> NoFailure]
    /\ caught = [i \in Ids |-> 0]
    /\ registeredAtFailure = [i \in Ids |-> FALSE]
    /\ docsAiArg = [i \in Ids |-> Absent]
    /\ recordAtInvoke = [i \in Ids |-> NoRecord]
    /\ deleted = {}
    /\ response = NoResponse

\* no executor and no normalizer runs on its own
\* nothing has been given to the normalizer
IdleNormalizer ==
    /\ document = Absent
    /\ wrapping = Absent
    /\ damage = Absent
    /\ normalizer_pc = "idle"
    /\ response_text = <<>>
    /\ json_string = <<>>
    /\ parsed = Absent

InitUnits ==
    /\ agent = Absent
    /\ agent_pc = "idle"
    /\ tasks = <<>>
    /\ sorted_tasks = <<>>
    /\ cursor = 0
    /\ completed_tasks = <<>>
    /\ task_results = <<>>
    /\ agent_raised = NoFailure
    /\ IdleNormalizer

Init == InitPipeline /\ InitUnits

\* ------------------------------------------------------------- handlers
\* fault: the identifier of a deleted project is issued again
FreshIdReused == IF deleted # {} THEN CHOOSE i \in deleted : TRUE ELSE nextId

\* main.py 81: uuid4 never repeats, so identifiers are issued in order
FreshId == nextId

\* POST /project
create_project(name, include_ai) ==
    /\ LET id == FreshId IN
        /\ active_projects' = active_projects \cup {id}
        /\ records' = [records EXCEPT ![id] = NewRecord(name, include_ai)]
        /\ request' = [request EXCEPT ![id] =
                          [project_name |-> name, include_ai |-> include_ai]]
        /\ pc' = [pc EXCEPT ![id] = "scheduled"]
        /\ statusTrace' = [statusTrace EXCEPT ![id] = <<"initializing">>]
        /\ progressTrace' = [progressTrace EXCEPT ![id] = <<0>>]
        /\ response' = Ok("create", id, NoBody)
    /\ nextId' = nextId + 1
    /\ UNCHANGED <<project_plan, fs, history, deleted, units>>

\* fault: the status response is the one the submission would have got
StatusBodyAtSubmission(r) ==
    [status |-> "initializing", progress |-> 0, details |-> r.details,
     download_path |-> Absent]

\* main.py 120-125: the body of a status response
StatusBody(r) ==
    [status |-> r.status, progress |-> r.progress, details |-> r.details,
     download_path |-> Absent]

\* GET /project/{id}/status
get_project_status(id) ==
    /\ response' = IF id \notin active_projects
                   THEN NotFound("status", id)
                   ELSE Ok("status", id, StatusBody(records[id]))
    /\ UNCHANGED <<active_projects, records, nextId, request, pc, project_plan,
                   fs, statusTrace, progressTrace, history, deleted, units>>

\* fault: a project counts as ready once its progress is 1.0
ReadyForDownloadByProgress(r) == r.progress = 10

\* main.py 134: may the project be downloaded
ReadyForDownload(r) == r.status = "completed"

\* main.py 138-139: the body of a download response
DownloadBody(r) == [NoBody EXCEPT !.download_path = r.name]

\* GET /project/{id}/download
download_project(id) ==
    /\ response' = IF id \notin active_projects
                   THEN NotFound("download", id)
                   ELSE IF ~ReadyForDownload(records[id])
                   THEN NotReady("download", id)
                   ELSE Ok("download", id, DownloadBody(records[id]))
    /\ UNCHANGED <<active_projects, records, nextId, request, pc, project_plan,
                   fs, statusTrace, progressTrace, history, deleted, units>>

\* fault: the directory is removed and the registry entry is left
delete_project_keeping_entry(id) ==
    /\ IF id \notin active_projects
       THEN /\ response' = NotFound("delete", id)
            /\ UNCHANGED <<fs, deleted>>
       ELSE /\ fs' = RemoveTree(fs, records[id].name)
            /\ deleted' = deleted \cup {id}
            /\ response' = Ok("delete", id, NoBody)
    /\ UNCHANGED <<active_projects, records, nextId, request, pc, project_plan,
                   statusTrace, progressTrace, history, units>>

\* fault: the delete also ends the project's task
delete_project_cancelling(id) ==
    /\ IF id \notin active_projects
       THEN /\ response' = NotFound("delete", id)
            /\ UNCHANGED <<fs, active_projects, deleted, pc>>
       ELSE /\ fs' = RemoveTree(fs, records[id].name)
            /\ active_projects' = active_projects \ {id}
            /\ deleted' = deleted \cup {id}
            /\ pc' = [pc EXCEPT ![id] = "done"]
            /\ response' = Ok("delete", id, NoBody)
    /\ UNCHANGED <<records, nextId, request, project_plan, statusTrace,
                   progressTrace, history, units>>

\* fault: a delete of an identifier that was deleted before succeeds again
delete_project_idempotent(id) ==
    /\ IF id \notin active_projects
       THEN /\ response' = IF id \in deleted THEN Ok("delete", id, NoBody)
                                             ELSE NotFound("delete", id)
            /\ UNCHANGED <<fs, active_projects, deleted>>
       ELSE /\ fs' = RemoveTree(fs, records[id].name)
            /\ active_projects' = active_projects \ {id}
            /\ deleted' = deleted \cup {id}
            /\ response' = Ok("delete", id, NoBody)
    /\ UNCHANGED <<records, nextId, request, pc, project_plan, statusTrace,
                   progressTrace, history, units>>

\* DELETE /project/{id}; the removal of the directory is taken to succeed
delete_project(id) ==
    /\ IF id \notin active_projects
       THEN /\ response' = NotFound("delete", id)
            /\ UNCHANGED <<fs, active_projects, deleted>>
       ELSE /\ fs' = RemoveTree(fs, records[id].name)
            /\ active_projects' = active_projects \ {id}
            /\ deleted' = deleted \cup {id}
            /\ response' = Ok("delete", id, NoBody)
    /\ UNCHANGED <<records, nextId, request, pc, project_plan, statusTrace,
                   progressTrace, history, units>>

\* ------------------------------------------- coordinator: record updates
\* main.py 171-172
Planning(r) == [r EXCEPT !.status = "planning", !.progress = 1]

\* main.py 188-190
AfterPlan(r, plan) ==
    [r EXCEPT !.status = "designing_architecture", !.progress = 2,
              !.details.project_plan = plan]

\* fault: the status after the architecture stage skips creating_frontend
AfterArchitectureSkipsFrontend(r) ==
    [r EXCEPT !.status = "creating_backend", !.progress = 3,
              !.details.architecture = "architecture"]

\* main.py 200-202
AfterArchitecture(r) ==
    [r EXCEPT !.status = "creating_frontend", !.progress = 3,
              !.details.architecture = "architecture"]

\* fault: a checkpoint value off the table
AfterFrontendWrongCheckpoint(r) ==
    [r EXCEPT !.status = "creating_backend", !.progress = 4,
              !.details.frontend_results = "frontend_results"]

\* main.py 215-217
AfterFrontend(r) ==
    [r EXCEPT !.status = "creating_backend", !.progress = 5,
              !.details.frontend_results = "frontend_results"]

\* fault: the 0.7 checkpoint is never assigned
AfterBackendWithoutCheckpoint(r) ==
    [r EXCEPT !.details.backend_results = "backend_results"]

\* main.py 230-231
AfterBackend(r) ==
    [r EXCEPT !.progress = 7, !.details.backend_results = "backend_results"]

\* fault: the AI stage starts without the status saying so
EnterAiSilently(r) == r

\* main.py 236
EnterAi(r) == [r EXCEPT !.status = "creating_ai_components"]

\* main.py 245
AfterAi(r) == [r EXCEPT !.details.ai_results = "ai_results"]

\* main.py 248-249
EnterDocumentation(r) ==
    [r EXCEPT !.status = "creating_documentation", !.progress = 8]

\* fault: the documentation results are not kept in details
AfterDocumentationWithoutResults(r) ==
    [r EXCEPT !.status = "finalizing", !.progress = 9]

\* main.py 264-266
AfterDocumentation(r) ==
    [r EXCEPT !.status = "finalizing", !.progress = 9,
              !.details.doc_results = "doc_results"]

\* fault: the run ends without the status saying so
CompletedWithoutStatus(r) ==
    [r EXCEPT !.progress = 10, !.details.final_report = "final_report"]

\* main.py 276-278
Completed(r) ==
    [r EXCEPT !.status = "completed", !.progress = 10,
              !.details.final_report = "final_report"]

\* main.py 279
ListFiles(r, files) == [r EXCEPT !.details.created_files = files]

\* fault: the except clause starts the record over
ErrorRecordResetsProgress(r, msg) ==
    [r EXCEPT !.status = "error", !.progress = 0, !.details.error = msg]

\* fault: an empty message is replaced by a text of the handler's own
ErrorRecordWithPlaceholder(r, msg) ==
    [r EXCEPT !.status = "error",
              !.details.error = IF msg = "" THEN "unknown error" ELSE msg]

\* fault: an except clause that sets the status and drops the message
ErrorRecordWithoutMessage(r, msg) == [r EXCEPT !.status = "error"]

\* main.py 287-288
ErrorRecord(r, msg) == [r EXCEPT !.status = "error", !.details.error = msg]

\* main.py 234-235: the ai_results the documentation stage is given
AiResultsFor(include_ai) == IF include_ai THEN "ai_results" ELSE "{}"

\* ------------------------------------------ stage executors: persistence
\* the result document of each stage (project_manager.py 137, 313, 399,
\* frontend.py 83; the AI and documentation ones after spec 4.3). No line of
\* backend.py writes a result document: its name here is the one the
\* frontend executor's would suggest, and nothing ever writes it.
ResultDocument(stage) ==
    CASE stage = "plan" -> "project_plan.json"
      [] stage = "architecture" -> "architecture.json"
      [] stage = "frontend" -> "frontend/frontend_results.json"
      [] stage = "backend" -> "backend/backend_results.json"
      [] stage = "ai" -> "ai/ai_results.json"
      [] stage = "documentation" -> "docs/doc_results.json"
      [] stage = "finalize" -> "final_report.json"

\* project_manager.py 313: the namespace the architecture is written under
ArchitectureNamespace(plan, id) ==
    IF plan = NoProjectName THEN FallbackNamespace(id) ELSE plan

\* project_manager.py 132-137
create_project_plan(store, name, id) ==
    WriteDoc(store, name, "project_plan.json", id)

\* project_manager.py 312-313
create_architecture(store, plan, id) ==
    WriteDoc(store, ArchitectureNamespace(plan, id), "architecture.json", id)

\* frontend.py 69-77: the tasks processed so far wrote their files
frontend_tasks(store, name, id, wrote) ==
    IF wrote THEN WriteDoc(store, name, "frontend/src", id) ELSE store

\* frontend.py 451-496: package.json is written first
frontend_package(store, name, id) ==
    WriteDoc(store, name, "frontend/package.json", id)

\* frontend.py 79-85
implement_frontend(store, name, id) ==
    WriteDoc(frontend_package(store, name, id), name,
             "frontend/frontend_results.json", id)

\* backend.py 53-71: _setup_project_structure writes the server skeleton
setup_project_structure(store, name, id) ==
    WriteDoc(store, name, "backend/src", id)

\* backend.py 73-84: the results are returned, no result document is written
implement_backend(store, name, id) == store

\* agents/ai.py (not in src): the executor persists its artifact (spec 4.3)
implement_ai_components(store, name, id) ==
    WriteDoc(store, name, "ai/ai_results.json", id)

\* agents/technical_writer.py (not in src): persists its artifact (spec 4.3)
create_documentation(store, name, id) ==
    WriteDoc(store, name, "docs/doc_results.json", id)

\* project_manager.py 327-328: FileManager.read_json of both documents
CanReadPlanAndArchitecture(store, name) ==
    /\ HasDoc(store, name, "project_plan.json")
    /\ HasDoc(store, name, "architecture.json")

\* FileManager.get_project_files (core/file_manager.py, not in src): a
\* storage read, which may fail with a StorageError (spec 7)
GetProjectFilesFailures == Msgs

\* and which otherwise lists what the namespace holds
get_project_files(store, name) == IF store[name] = {} THEN "[]" ELSE "files"

\* project_manager.py 399
write_final_report(store, name, id) ==
    WriteDoc(store, name, "final_report.json", id)

\* project_manager.py 399-400
finalize_project(store, name, id) ==
    WriteDoc(write_final_report(store, name, id), name, "README.md", id)

\* did the executor of this stage leave its result document in storage
PersistedBy(store, stage, id) ==
    \E ns \in Namespaces : <<ResultDocument(stage), id>> \in store[ns]

\* ------------------------------------------------- the pipeline task
\* fault: every task writes to the record of the first project
ContinueOnFirstRecord(id, r, statuses, progresses, next) ==
    /\ records' = [records EXCEPT ![1] = r]
    /\ statusTrace' = [statusTrace EXCEPT ![id] = @ \o statuses]
    /\ progressTrace' = [progressTrace EXCEPT ![id] = @ \o progresses]
    /\ pc' = [pc EXCEPT ![id] = next]
    /\ UNCHANGED <<raised, caught, registeredAtFailure>>

\* the task goes on to its next suspension point
Continue(id, r, statuses, progresses, next) ==
    /\ records' = [records EXCEPT ![id] = r]
    /\ statusTrace' = [statusTrace EXCEPT ![id] = @ \o statuses]
    /\ progressTrace' = [progressTrace EXCEPT ![id] = @ \o progresses]
    /\ pc' = [pc EXCEPT ![id] = next]
    /\ UNCHANGED <<raised, caught, registeredAtFailure>>

\* fault: the except clause subscripts the registry, which raises for a
\* key that is gone
RegistrySubscript(id) == IF id \in active_projects THEN "record" ELSE "KeyError"

\* main.py 285: active_projects.get(project_id)
RegistryGet(id) == IF id \in active_projects THEN "record" ELSE "None"

\* main.py 283-288: the except clause, entered with the record as the
\* segment left it; a failure raised inside the clause would end the task
\* unhandled
Except(id, msg, r, statuses, progresses) ==
    /\ raised' = [raised EXCEPT ![id] = msg]
    /\ caught' = [caught EXCEPT ![id] = @ + 1]
    /\ registeredAtFailure' = [registeredAtFailure EXCEPT ![id] = id \in active_projects]
    /\ IF RegistryGet(id) = "record"
       THEN /\ records' = [records EXCEPT ![id] = ErrorRecord(r, msg)]
            /\ statusTrace' = [statusTrace EXCEPT ![id] =
                                  @ \o statuses \o <<ErrorRecord(r, msg).status>>]
       ELSE /\ records' = [records EXCEPT ![id] = r]
            /\ statusTrace' = [statusTrace EXCEPT ![id] = @ \o statuses]
    /\ progressTrace' = [progressTrace EXCEPT ![id] = @ \o progresses]
    /\ pc' = [pc EXCEPT ![id] =
                 IF RegistryGet(id) = "KeyError" THEN "crashed" ELSE "done"]

\* a stage executor is called, the record being r
Invoke(id, stage, r) ==
    /\ calls' = [calls EXCEPT ![id] = Append(@, stage)]
    /\ recordAtInvoke' = [recordAtInvoke EXCEPT ![id] = r]

\* the executor of the stage returned: note it, and whether its result
\* document is in storage
Return(id, stage) ==
    /\ returned' = [returned EXCEPT ![id] = Append(@, stage)]
    /\ persisted' = [persisted EXCEPT ![id] =
                        IF PersistedBy(fs', stage, id) THEN @ \cup {stage} ELSE @]

TaskFrame ==
    /\ UNCHANGED <<active_projects, nextId, request, deleted, units>>
    /\ response' = NoResponse

\* main.py 161-185: the task starts; up to the first await of the plan stage
Begin(id) ==
    /\ pc[id] = "scheduled"
    /\ TaskFrame
    /\ UNCHANGED <<project_plan, returned, persisted, docsAiArg>>
    /\ \/ \* 162: the identifier was deleted before the task ran
          /\ id \notin active_projects
          /\ Except(id, KeyErrorMessage, records[id], <<>>, <<>>)
          /\ UNCHANGED <<fs, calls, recordAtInvoke>>
       \/ \* 166-168 fail
          /\ id \in active_projects
          /\ \E m \in Msgs : Except(id, m, records[id], <<>>, <<>>)
          /\ UNCHANGED <<fs, calls, recordAtInvoke>>
       \/ /\ id \in active_projects
          /\ fs' = RemoveTree(fs, request[id].project_name)
          /\ LET r == Planning(records[id])
             IN /\ Invoke(id, "plan", r)
                /\ Continue(id, r, <<r.status>>, <<r.progress>>, "plan")

\* project_manager.py 125-139, main.py 187-197
PlanStep(id) ==
    /\ pc[id] = "plan"
    /\ TaskFrame
    /\ UNCHANGED docsAiArg
    /\ \/ /\ \E m \in Msgs : Except(id, m, records[id], <<>>, <<>>)
          /\ UNCHANGED <<fs, calls, recordAtInvoke, returned, persisted, project_plan>>
       \/ \E plan \in Plans(request[id].project_name) :
            /\ fs' = create_project_plan(fs, request[id].project_name, id)
            /\ Return(id, "plan")
            /\ project_plan' = [project_plan EXCEPT ![id] = plan]
            /\ LET r == AfterPlan(records[id], plan)
               IN /\ Invoke(id, "architecture", r)
                  /\ Continue(id, r, <<r.status>>, <<r.progress>>, "architecture")

\* project_manager.py 305-315, main.py 199-212, frontend.py 51-71
ArchitectureStep(id) ==
    /\ pc[id] = "architecture"
    /\ TaskFrame
    /\ UNCHANGED <<docsAiArg, project_plan>>
    /\ \/ /\ \E m \in Msgs : Except(id, m, records[id], <<>>, <<>>)
          /\ UNCHANGED <<fs, calls, recordAtInvoke, returned, persisted>>
       \/ /\ fs' = create_architecture(fs, project_plan[id], id)
          /\ Return(id, "architecture")
          /\ LET r == AfterArchitecture(records[id])
             IN /\ Invoke(id, "frontend", r)
                /\ Continue(id, r, <<r.status>>, <<r.progress>>, "frontend")

\* frontend.py 69-80: the task loop, up to the await of _create_config_files
FrontendTasksStep(id) ==
    /\ pc[id] = "frontend"
    /\ TaskFrame
    /\ UNCHANGED <<docsAiArg, project_plan, calls, recordAtInvoke, returned, persisted>>
    /\ \E wrote \in BOOLEAN :
        /\ fs' = frontend_tasks(fs, request[id].project_name, id, wrote)
        /\ \/ \E m \in Msgs : Except(id, m, records[id], <<>>, <<>>)
           \/ Continue(id, records[id], <<>>, <<>>, "frontend_config")

\* frontend.py 476-577 and 82-85, main.py 214-227, backend.py 51-75
FrontendConfigStep(id) ==
    /\ pc[id] = "frontend_config"
    /\ TaskFrame
    /\ UNCHANGED <<docsAiArg, project_plan>>
    /\ \/ /\ \E wrote \in BOOLEAN :
                fs' = IF wrote
                      THEN frontend_package(fs, request[id].project_name, id)
                      ELSE fs
          /\ \E m \in Msgs : Except(id, m, records[id], <<>>, <<>>)
          /\ UNCHANGED <<calls, recordAtInvoke, returned, persisted>>
       \/ /\ fs' = setup_project_structure(
                      implement_frontend(fs, request[id].project_name, id),
                      request[id].project_name, id)
          /\ Return(id, "frontend")
          /\ LET r == AfterFrontend(records[id])
             IN /\ Invoke(id, "backend", r)
                /\ Continue(id, r, <<r.status>>, <<r.progress>>, "backend")

\* fault: the AI stage is skipped whatever the request says
NeedsAiNever(req) == FALSE

\* fault: the AI stage runs whatever the request says
NeedsAiAlways(req) == TRUE

\* main.py 235: is the AI stage part of this run
NeedsAi(req) == req.include_ai

\* backend.py 73-84, main.py 229-261
BackendStep(id) ==
    /\ pc[id] = "backend"
    /\ TaskFrame
    /\ UNCHANGED project_plan
    /\ \/ /\ \E m \in Msgs : Except(id, m, records[id], <<>>, <<>>)
          /\ UNCHANGED <<fs, calls, recordAtInvoke, returned, persisted, docsAiArg>>
       \/ /\ fs' = implement_backend(fs, request[id].project_name, id)
          /\ Return(id, "backend")
          /\ LET r1 == AfterBackend(records[id])
             IN IF NeedsAi(request[id])
                THEN /\ UNCHANGED docsAiArg
                     /\ LET r2 == EnterAi(r1)
                        IN /\ Invoke(id, "ai", r2)
                           /\ Continue(id, r2, <<r2.status>>, <<r1.progress>>, "ai")
                ELSE /\ docsAiArg' = [docsAiArg EXCEPT ![id] = AiResultsFor(FALSE)]
                     /\ LET r2 == EnterDocumentation(r1)
                        IN /\ Invoke(id, "documentation", r2)
                           /\ Continue(id, r2, <<r2.status>>,
                                       <<r1.progress, r2.progress>>, "documentation")

\* main.py 239-261
AiStep(id) ==
    /\ pc[id] = "ai"
    /\ TaskFrame
    /\ UNCHANGED project_plan
    /\ \/ /\ \E m \in Msgs : Except(id, m, records[id], <<>>, <<>>)
          /\ UNCHANGED <<fs, calls, recordAtInvoke, returned, persisted, docsAiArg>>
       \/ /\ fs' = implement_ai_components(fs, request[id].project_name, id)
          /\ Return(id, "ai")
          /\ docsAiArg' = [docsAiArg EXCEPT ![id] = AiResultsFor(TRUE)]
          /\ LET r == EnterDocumentation(AfterAi(records[id]))
             IN /\ Invoke(id, "documentation", r)
                /\ Continue(id, r, <<r.status>>, <<r.progress>>, "documentation")

\* main.py 253-273, project_manager.py 324-368
DocumentationStep(id) ==
    /\ pc[id] = "documentation"
    /\ TaskFrame
    /\ UNCHANGED <<project_plan, docsAiArg>>
    /\ \/ /\ \E m \in Msgs : Except(id, m, records[id], <<>>, <<>>)
          /\ UNCHANGED <<fs, calls, recordAtInvoke, returned, persisted>>
       \/ /\ fs' = create_documentation(fs, request[id].project_name, id)
          /\ Return(id, "documentation")
          /\ LET r == AfterDocumentation(records[id])
             IN /\ Invoke(id, "finalize", r)
                /\ IF CanReadPlanAndArchitecture(fs', request[id].project_name)
                   THEN Continue(id, r, <<r.status>>, <<r.progress>>, "finalize")
                   ELSE Except(id, MissingDocument, r, <<r.status>>, <<r.progress>>)

\* project_manager.py 368-402, main.py 275-288
FinalizeStep(id) ==
    /\ pc[id] = "finalize"
    /\ TaskFrame
    /\ UNCHANGED <<project_plan, docsAiArg, calls, recordAtInvoke>>
    /\ \/ /\ \E wrote \in BOOLEAN :
                fs' = IF wrote
                      THEN write_final_report(fs, request[id].project_name, id)
                      ELSE fs
          /\ \E m \in Msgs : Except(id, m, records[id], <<>>, <<>>)
          /\ UNCHANGED <<returned, persisted>>
       \/ /\ fs' = finalize_project(fs, request[id].project_name, id)
          /\ Return(id, "finalize")
          /\ LET r == Completed(records[id])
             IN \/ Continue(id, ListFiles(r, get_project_files(fs', request[id].project_name)),
                            <<r.status>>, <<r.progress>>, "done")
                \/ \* 279: get_project_files fails after the record says completed
                   \E m \in GetProjectFilesFailures :
                      Except(id, m, r, <<r.status>>, <<r.progress>>)

\* one step of the pipeline task of some project
TaskStep(id) ==
    \/ Begin(id)
    \/ PlanStep(id)
    \/ ArchitectureStep(id)
    \/ FrontendTasksStep(id)
    \/ FrontendConfigStep(id)
    \/ BackendStep(id)
    \/ AiStep(id)
    \/ DocumentationStep(id)
    \/ FinalizeStep(id)

\* the pipeline and the requests that change the registry: MaxProjects
\* submissions, and deletes of registered identifiers
Next ==
    \/ /\ nextId <= MaxProjects
       /\ \E name \in Names, include_ai \in BOOLEAN : create_project(name, include_ai)
    \/ \E id \in active_projects : delete_project(id)
    \/ \E id \in Ids : Begin(id)
    \/ \E id \in Ids : PlanStep(id)
    \/ \E id \in Ids : ArchitectureStep(id)
    \/ \E id \in Ids : FrontendTasksStep(id)
    \/ \E id \in Ids : FrontendConfigStep(id)
    \/ \E id \in Ids : BackendStep(id)
    \/ \E id \in Ids : AiStep(id)
    \/ \E id \in Ids : DocumentationStep(id)
    \/ \E id \in Ids : FinalizeStep(id)

Spec == Init /\ [][Next]_vars

\* the event loop runs every task that is ready, and every call a task
\* awaits is taken to return or raise
Fairness == \A id \in Ids : WF_vars(TaskStep(id))

SpecFair == Spec /\ Fairness

\* the same with every request of the API, for any identifier
NextApi ==
    \/ Next
    \/ \E id \in Ids : get_project_status(id)
    \/ \E id \in Ids : download_project(id)
    \/ \E id \in Ids \ active_projects : delete_project(id)

SpecApi == Init /\ [][NextApi]_vars

\* the same as Spec with one more submission, so that two projects and
\* their tasks run side by side
NextMulti ==
    \/ /\ nextId <= MaxProjects + 1
       /\ \E name \in Names, include_ai \in BOOLEAN : create_project(name, include_ai)
    \/ \E id \in active_projects : delete_project(id)
    \/ \E id \in Ids : TaskStep(id)

SpecMulti == Init /\ [][NextMulti]_vars

TypeOK ==
    /\ active_projects \subseteq Ids
    /\ nextId \in 1..(MaxProjects + 2)
    /\ deleted \subseteq Ids
    /\ response.code \in {0, 200, 400, 404}
    /\ \A i \in Ids : records[i].progress \in 0..10
    /\ \A ns \in Namespaces : fs[ns] \subseteq Documents \X Ids

\* ----------------------------------------------------------- properties
Scheduled(id) == pc[id] # "unscheduled"

Range(seq) == {seq[i] : i \in 1..Len(seq)}

NonDecreasing(seq) == \A i \in 1..(Len(seq) - 1) : seq[i] <= seq[i + 1]

IsPrefix(a, b) == Len(a) <= Len(b) /\ a = SubSeq(b, 1, Len(a))

TerminalStatuses == {"completed", "error"}

\* C1: for every project and whatever steps of its pipeline succeed or fail,
\* the values assigned to progress never decrease, and in every reachable
\* state progress is 1.0 if and only if status is completed.
C1_ProgressMonotoneAndFullIffCompleted ==
    \A id \in Ids :
        /\ NonDecreasing(progressTrace[id])
        /\ records[id].progress = 10 <=> records[id].status = "completed"

\* C2: completed and error are terminal and the only terminal states: no
\* value is assigned to status after completed or error, and a registered
\* project in any other status has a pipeline task that can still step.
C2_TerminalStatusesAreFinal ==
    \A id \in Ids :
        /\ \A i \in 1..(Len(statusTrace[id]) - 1) :
              statusTrace[id][i] \notin TerminalStatuses
        /\ (id \in active_projects /\ records[id].status \notin TerminalStatuses)
              => pc[id] # "done"

\* C3: a failure raised by any step of a pipeline run is caught once, and
\* if the project was still registered its status is error and
\* details.error is exactly the failure's message.
C3_FailureRecordedVerbatim ==
    \A id \in Ids :
        /\ caught[id] <= 1
        /\ raised[id] # NoFailure =>
              /\ caught[id] = 1
              /\ pc[id] = "done"
              /\ registeredAtFailure[id] =>
                    /\ records[id].status = "error"
                    /\ records[id].details.error = raised[id]

C3_Witness ==
    \E id \in Ids :
        /\ raised[id] = "adapter failed"
        /\ registeredAtFailure[id]
        /\ "backend" \in Range(calls[id])
        /\ records[id].details.error = "adapter failed"

\* the stage order of a run, and the statuses it goes through
StagesWithoutAi == SelectSeq(Stages, LAMBDA s : s # "ai")

ExpectedStages(include_ai) == IF include_ai THEN Stages ELSE StagesWithoutAi

AllStatuses ==
    <<"initializing", "planning", "designing_architecture", "creating_frontend",
      "creating_backend", "creating_ai_components", "creating_documentation",
      "finalizing", "completed">>

StatusesWithoutAi ==
    SelectSeq(AllStatuses, LAMBDA s : s # "creating_ai_components")

StatusOrder(include_ai) == IF include_ai THEN AllStatuses ELSE StatusesWithoutAi

\* C4: the stage executors of a run are invoked in the order plan,
\* architecture, frontend, backend, AI (only if opted in), documentation,
\* finalize, each at most once, and a stage is invoked only when every
\* earlier stage has returned a result.
C4_StagesInvokedInOrder ==
    \A id \in Ids :
        /\ IsPrefix(calls[id], ExpectedStages(request[id].include_ai))
        /\ \/ returned[id] = calls[id]
           \/ /\ Len(calls[id]) > 0
              /\ returned[id] = SubSeq(calls[id], 1, Len(calls[id]) - 1)

C4_Witness ==
    \E id \in Ids :
        /\ request[id].include_ai
        /\ calls[id] = Stages
        /\ returned[id] = SubSeq(Stages, 1, Len(Stages) - 1)

\* C5: the values status takes are a prefix of initializing, planning,
\* designing_architecture, creating_frontend, creating_backend,
\* [creating_ai_components], creating_documentation, finalizing, completed,
\* optionally followed by error.
C5_StatusFollowsTheOrder ==
    \A id \in Ids :
        \E include_ai \in BOOLEAN :
            LET st == statusTrace[id]
                order == StatusOrder(include_ai)
            IN \/ IsPrefix(st, order)
               \/ /\ Len(st) > 0
                  /\ st[Len(st)] = "error"
                  /\ IsPrefix(SubSeq(st, 1, Len(st) - 1), order)

C5_Witness ==
    \E id \in Ids :
        /\ statusTrace[id] = StatusOrder(FALSE)
        /\ records[id].status = "completed"

\* C6: with include_ai = false the status is never creating_ai_components,
\* the AI executor is never invoked, details has no ai_results, status goes
\* from creating_backend straight to creating_documentation, and the
\* documentation stage (given an empty AI artifact) and the finalize stage
\* are still invoked.
C6_NoAiStageWithoutOptIn ==
    \A id \in Ids :
        (Scheduled(id) /\ ~request[id].include_ai) =>
            /\ "creating_ai_components" \notin Range(statusTrace[id])
            /\ "ai" \notin Range(calls[id])
            /\ ~Has(id, "ai_results")
            /\ \A i \in 1..(Len(statusTrace[id]) - 1) :
                  statusTrace[id][i] = "creating_backend" =>
                      statusTrace[id][i + 1] \in {"creating_documentation", "error"}
            /\ "backend" \in Range(returned[id]) =>
                  /\ "documentation" \in Range(calls[id])
                  /\ docsAiArg[id] = "{}"
            /\ "documentation" \in Range(returned[id]) =>
                  "finalize" \in Range(calls[id])

C6_Witness ==
    \E id \in Ids :
        /\ ~request[id].include_ai
        /\ "finalize" \in Range(returned[id])
        /\ docsAiArg[id] = "{}"
        /\ records[id].status = "completed"

\* C7: with include_ai = true, a run whose status reaches
\* creating_documentation was in creating_ai_components before, after
\* creating_backend, and the AI executor had returned when the documentation
\* stage was invoked.
C7_AiStageBeforeDocumentation ==
    \A id \in Ids :
        request[id].include_ai =>
            /\ "creating_documentation" \in Range(statusTrace[id]) =>
                  \E k \in 1..Len(statusTrace[id]) :
                      /\ statusTrace[id][k] = "creating_documentation"
                      /\ \E j \in 1..(k - 1) :
                            /\ statusTrace[id][j] = "creating_ai_components"
                            /\ \E i \in 1..(j - 1) :
                                  statusTrace[id][i] = "creating_backend"
            /\ "documentation" \in Range(calls[id]) =>
                  /\ "ai" \in Range(returned[id])
                  /\ docsAiArg[id] = "ai_results"

C7_Witness ==
    \E id \in Ids :
        /\ request[id].include_ai
        /\ records[id].status = "creating_documentation"
        /\ "ai" \in Range(returned[id])

\* the last stage that returned a result, "none" before the plan has
LastCompleted(id) ==
    IF returned[id] = <<>> THEN "none" ELSE returned[id][Len(returned[id])]

\* C8 as stated: progress is the checkpoint of the last completed stage
\* (0.0 at submission, 0.1 after plan, 0.2 after architecture, 0.3 after
\* frontend, 0.5 after backend, 0.7 after the AI stage or its skip, 0.8
\* after documentation, 0.9 once finalize has started, 1.0 at completion).
C8_ProgressOfLastCompletedStage ==
    \A id \in Ids :
        Scheduled(id) =>
            LET last == LastCompleted(id)
                p == records[id].progress
            IN CASE last = "none" -> p = 0
                 [] last = "plan" -> p = 1
                 [] last = "architecture" -> p = 2
                 [] last = "frontend" -> p = 3
                 [] last = "backend" -> p \in {5, 7}
                 [] last = "ai" -> p = 7
                 [] last = "documentation" -> p \in {8, 9}
                 [] last = "finalize" -> p = 10

\* the status and the progress the coordinator sets once `last` has returned
StatusAfter(last, include_ai) ==
    CASE last = "plan" -> "designing_architecture"
      [] last = "architecture" -> "creating_frontend"
      [] last = "frontend" -> "creating_backend"
      [] last = "backend" ->
            IF include_ai THEN "creating_ai_components" ELSE "creating_documentation"
      [] last = "ai" -> "creating_documentation"
      [] last = "documentation" -> "finalizing"
      [] last = "finalize" -> "completed"

ProgressAfter(last, include_ai) ==
    CASE last = "plan" -> 2
      [] last = "architecture" -> 3
      [] last = "frontend" -> 5
      [] last = "backend" -> IF include_ai THEN 7 ELSE 8
      [] last = "ai" -> 8
      [] last = "documentation" -> 9
      [] last = "finalize" -> 10

\* C8 amended: progress is the checkpoint of the stage in progress, the one
\* after the last completed stage: 0.0 at submission, 0.1 once the plan
\* stage has started, 0.2 after plan, 0.3 after architecture, 0.5 after
\* frontend, 0.7 after backend while the AI stage runs, 0.8 after the AI
\* stage or its skip, 0.9 after documentation, 1.0 after finalize; status
\* is error or the status of the stage in progress.
C8_ProgressOfStageInProgress ==
    \A id \in Ids :
        Scheduled(id) =>
            LET last == LastCompleted(id)
                r == records[id]
                ai == request[id].include_ai
            IN IF last = "none"
               THEN \/ /\ calls[id] = <<>>
                       /\ r.progress = 0
                       /\ r.status \in {"initializing", "error"}
                    \/ /\ calls[id] = <<"plan">>
                       /\ r.progress = 1
                       /\ r.status \in {"planning", "error"}
               ELSE /\ r.progress = ProgressAfter(last, ai)
                    /\ r.status \in {StatusAfter(last, ai), "error"}

C8_Witness ==
    \E id \in Ids :
        /\ LastCompleted(id) = "frontend"
        /\ records[id].progress = 5
        /\ records[id].status = "creating_backend"

\* C9: a run with include_ai = false in which every stage succeeds assigns
\* to progress exactly 0.0, 0.1, 0.2, 0.3, 0.5, 0.7, 0.8, 0.9, 1.0, in
\* that order.
C9_ProgressTraceWithoutAi ==
    \A id \in Ids :
        (/\ Scheduled(id)
         /\ ~request[id].include_ai
         /\ pc[id] = "done"
         /\ raised[id] = NoFailure) =>
            progressTrace[id] = <<0, 1, 2, 3, 5, 7, 8, 9, 10>>

C9_Witness ==
    \E id \in Ids :
        /\ ~request[id].include_ai
        /\ pc[id] = "done"
        /\ raised[id] = NoFailure
        /\ records[id].status = "completed"
        /\ progressTrace[id][Len(progressTrace[id])] = 10

\* C10: whenever the status has advanced past a stage, the executor of that
\* stage had written its result document to storage before it returned.
C10_ArtifactPersistedBeforeAdvance ==
    \A id \in Ids :
        \A stage \in Range(returned[id]) : stage \in persisted[id]

\* ----------------------------------------------------- the error path
\* the task failed inside a stage executor: one was invoked and did not return
StageFailed(id) ==
    raised[id] # NoFailure /\ Len(calls[id]) > Len(returned[id])

FailedStage(id) == calls[id][Len(calls[id])]

\* the record differs from the one the failing stage was invoked with in
\* status and details.error only, if the except clause found it registered,
\* and in nothing otherwise
OnlyErrorRecorded(id) ==
    IF registeredAtFailure[id]
    THEN /\ records[id].name = recordAtInvoke[id].name
         /\ records[id].progress = recordAtInvoke[id].progress
         /\ \A k \in DetailKeys \ {"error"} :
               records[id].details[k] = recordAtInvoke[id].details[k]
    ELSE records[id] = recordAtInvoke[id]

\* C11 as stated: when a stage fails the error transition changes only status
\* and details.error, progress keeping the value it had before the failing
\* stage was invoked, which for the architecture stage is at most 0.1.
C11_ErrorChangesOnlyStatusAndError ==
    \A id \in Ids :
        StageFailed(id) =>
            /\ OnlyErrorRecorded(id)
            /\ FailedStage(id) = "architecture" => records[id].progress <= 1

\* C11: when a stage fails the error transition changes only status and
\* details.error: progress and every artifact in details are those the
\* failing stage was invoked with, which for the architecture stage is
\* progress 0.2 and the plan.
C11_ErrorKeepsProgressAtInvocation ==
    \A id \in Ids :
        StageFailed(id) =>
            /\ OnlyErrorRecorded(id)
            /\ FailedStage(id) = "architecture" =>
                  /\ records[id].progress = 2
                  /\ registeredAtFailure[id] => Has(id, "project_plan")

C11_Witness ==
    \E id \in Ids :
        /\ StageFailed(id)
        /\ FailedStage(id) = "architecture"
        /\ registeredAtFailure[id]
        /\ records[id].status = "error"
        /\ records[id].progress = 2

\* C12 as stated: in every reachable state in which a project's status is
\* error, details.error is present and non-empty, whatever failure was
\* raised, one with an empty message included.
C12_ErrorMessageNonEmpty ==
    \A id \in Ids :
        records[id].status = "error" =>
            Has(id, "error") /\ records[id].details.error # ""

\* C12: in every reachable state in which a project's status is error,
\* details.error is present and is the text of the failure that was raised:
\* it is empty exactly when that failure carried an empty message.
C12_ErrorMessagePresent ==
    \A id \in Ids :
        records[id].status = "error" =>
            /\ Has(id, "error")
            /\ raised[id] # NoFailure
            /\ records[id].details.error = "" <=> raised[id] = ""

C12_Witness ==
    \E id \in Ids :
        /\ records[id].status = "error"
        /\ raised[id] = ""
        /\ records[id].details.error = ""
        /\ Len(calls[id]) > 0

\* ------------------------------------------------------------ requests
\* C13: a submit allocates an identifier that was never issued before, not
\* even to a project since deleted, inserts exactly one new record with
\* status initializing and progress 0.0, leaves every existing record as it
\* was, and returns before any stage of the new project's pipeline was invoked.
C13_SubmitInsertsOneFreshRecord ==
    [][nextId' # nextId =>
        \E id \in Ids :
            /\ ~Scheduled(id)
            /\ id \notin active_projects \cup deleted
            /\ active_projects' = active_projects \cup {id}
            /\ records'[id].status = "initializing"
            /\ records'[id].progress = 0
            /\ \A other \in Ids \ {id} :
                  records'[other] = records[other] /\ pc'[other] = pc[other]
            /\ response' = Ok("create", id, NoBody)
            /\ pc'[id] = "scheduled"
            /\ calls'[id] = <<>>]_vars

C13_Witness ==
    \E id \in Ids, other \in Ids :
        /\ response = Ok("create", id, NoBody)
        /\ other # id
        /\ other \in active_projects
        /\ records[other].progress > 0
        /\ records[id].status = "initializing"
        /\ calls[id] = <<>>

\* the step is the handling of a request op for the identifier id
Handled(op, id) ==
    response' # response /\ response'.op = op /\ response'.id = id

\* an identifier that is not a key of the registry was never issued or was deleted
Unknown(id) == ~Scheduled(id) \/ id \in deleted

\* C14: get_status is a pure read: it leaves the registry, every record, the
\* tasks and storage unchanged; it returns the record's current status,
\* progress and details for a registered identifier and fails with 404 for
\* one that was never issued or has been deleted.
C14_StatusIsAPureRead ==
    [][\A id \in Ids :
        Handled("status", id) =>
            /\ UNCHANGED <<active_projects, records, pc, fs, nextId>>
            /\ IF Unknown(id)
               THEN response'.code = 404 /\ id \notin active_projects
               ELSE /\ id \in active_projects
                    /\ response'.code = 200
                    /\ response'.body.status = records[id].status
                    /\ response'.body.progress = records[id].progress
                    /\ response'.body.details = records[id].details]_vars

C14_Witness ==
    \E id \in Ids :
        /\ response.op = "status"
        /\ response.id = id
        /\ response.code = 200
        /\ response.body.status = "creating_backend"
        /\ response.body.progress = 5
        /\ response.body.details.frontend_results # Absent

WrittenBy(store, id) ==
    {<<ns, doc>> \in Namespaces \X Documents : <<doc, id>> \in store[ns]}

\* C16: a delete of a known identifier removes every durable artifact the
\* project's stages have persisted: right after the delete of a project whose
\* task has ended, no document written by that project's run is in storage.
C16_DeleteRemovesEveryArtifact ==
    [][\A id \in Ids :
        (id \in active_projects /\ id \notin active_projects' /\ pc[id] = "done")
            => WrittenBy(fs', id) = {}]_vars

\* C17: download fails with 404 for an identifier that is not in the
\* registry, fails with 400 for a registered project whose status is not
\* completed (error and every status of a run in progress included), and
\* returns the path of the project's namespace exactly when the status is
\* completed; it never changes the record.
C17_DownloadOnlyWhenCompleted ==
    [][\A id \in Ids :
        Handled("download", id) =>
            /\ UNCHANGED <<active_projects, records, pc, fs, nextId>>
            /\ response'.code =
                  IF id \notin active_projects THEN 404
                  ELSE IF records[id].status = "completed" THEN 200 ELSE 400
            /\ response'.code = 200 =>
                  response'.body.download_path = request[id].project_name]_vars

C17_Witness ==
    \E id \in Ids :
        /\ response.op = "download"
        /\ response.id = id
        /\ response.code = 200
        /\ response.body.download_path \in Names
        /\ records[id].status = "completed"

\* ------------------------------------------------ deletes and the task
\* C18: a delete that interleaves with a project's task at any point never
\* makes the task end with an unhandled failure and never makes it put the
\* identifier back: after the delete the identifier stays out of the
\* registry, and a failure of the task is still caught once and ends it.
C18_DeleteNeverBreaksTheTask ==
    \A id \in deleted :
        /\ id \notin active_projects
        /\ pc[id] # "crashed"
        /\ raised[id] # NoFailure => caught[id] = 1 /\ pc[id] = "done"
        /\ (raised[id] # NoFailure /\ ~registeredAtFailure[id]) =>
              records[id].details.error = Absent

C18_Witness ==
    \E id \in deleted :
        /\ raised[id] = "adapter failed"
        /\ ~registeredAtFailure[id]
        /\ pc[id] = "done"
        /\ Len(returned[id]) >= 2

\* the stage that returned in this step
JustReturned(id) == returned'[id][Len(returned'[id])]

\* C19: there is no cancellation: a delete issued while a project's task is
\* running leaves the task where it is, and the task of a deleted project
\* goes on as before: it invokes the remaining stages in order, and each
\* stage that returns has stored its document, in the namespace the delete
\* wiped (the architecture in its own, the backend none).
C19_DeleteDoesNotStopTheTask ==
    [][\A id \in Ids :
        /\ (id \in active_projects /\ id \notin active_projects') =>
              /\ pc'[id] = pc[id]
              /\ calls'[id] = calls[id]
              /\ returned'[id] = returned[id]
              /\ records'[id] = records[id]
        /\ (id \in deleted /\ calls'[id] # calls[id]) =>
              /\ pc[id] \notin {"scheduled", "done"}
              /\ IsPrefix(calls'[id], ExpectedStages(request[id].include_ai))
        /\ (id \in deleted /\ returned'[id] # returned[id]) =>
              CASE JustReturned(id) = "backend" -> TRUE
                [] JustReturned(id) = "architecture" ->
                      PersistedBy(fs', "architecture", id)
                [] OTHER ->
                      <<ResultDocument(JustReturned(id)), id>>
                          \in fs'[request[id].project_name]]_vars

C19_Witness ==
    \E id \in deleted :
        /\ records[id].status = "completed"
        /\ calls[id] = ExpectedStages(request[id].include_ai)
        /\ <<"final_report.json", id>> \in fs[request[id].project_name]
        /\ ~HasDoc(fs, request[id].project_name, "project_plan.json")

\* C20: for every identifier at most one pipeline task is ever scheduled,
\* and the record of an issued identifier changes only in a step of the task
\* scheduled for that identifier: no submit or delete request and no step of
\* another project's task changes it.
C20_SingleWriter ==
    [][\A id \in Ids :
        /\ (pc'[id] = "scheduled" /\ pc[id] # "scheduled") =>
              pc[id] = "unscheduled" /\ id \notin deleted
        /\ (Scheduled(id) /\ records'[id] # records[id]) =>
              /\ pc'[id] # pc[id]
              /\ pc[id] # "done"
              /\ \A other \in Ids \ {id} :
                    pc'[other] = pc[other] /\ records'[other] = records[other]
              /\ UNCHANGED <<active_projects, nextId, deleted>>
              /\ response' = NoResponse]_vars

C20_Witness ==
    \E id \in Ids, other \in Ids :
        /\ {id, other} \subseteq active_projects
        /\ records[id].status = "creating_frontend"
        /\ records[other].status = "creating_documentation"
        /\ request[id].project_name = request[other].project_name

\* ------------------------------------------------------------- details
\* C21: details is append-only except for the error field: once a key other
\* than error has a value in a project's details (the request fields and
\* created_files from the submission on, each artifact once its stage has
\* returned), no later step removes the key or replaces its value.
C21_DetailsAppendOnly ==
    [][\A id \in Ids : \A k \in DetailKeys \ {"error"} :
        (Scheduled(id) /\ records[id].details[k] # Absent) =>
            records'[id].details[k] = records[id].details[k]]_vars

\* ------------------------------------------------------------- storage
SameName(id, other) ==
    /\ other # id
    /\ Scheduled(other)
    /\ request[other].project_name = request[id].project_name

\* C22: storage is keyed by the submitted name, not by the identifier: the
\* start of a project's run and the delete of a project empty the namespace
\* of its name whoever wrote the documents in it, and a run whose own plan
\* and architecture went to that namespace finds them missing at finalize
\* only when another project was submitted under the same name (or the
\* project itself was deleted).
C22_SameNameSharesOneNamespace ==
    [][\A id \in Ids :
        /\ (\/ pc[id] = "scheduled" /\ pc'[id] = "plan"
            \/ id \in active_projects /\ id \notin active_projects')
              => fs'[request[id].project_name] = {}
        /\ (/\ raised[id] = NoFailure
            /\ raised'[id] = MissingDocument
            /\ project_plan[id] # NoProjectName
            /\ id \notin deleted)
              => \E other \in Ids : SameName(id, other)]_vars

C22_Witness ==
    \E id \in Ids, other \in Ids :
        /\ SameName(id, other)
        /\ deleted = {}
        /\ "plan" \in persisted[id]
        /\ "architecture" \in persisted[id]
        /\ project_plan[id] # NoProjectName
        /\ raised[id] = MissingDocument
        /\ records[id].status = "error"

\* C23: every stage artifact of a project is persisted under the namespace
\* of that project's name, so that the plan and architecture documents the
\* finalize stage reads from that namespace are there, written by the plan
\* and architecture stages of the same run (of a project that was not deleted).
C23_ArtifactsUnderTheProjectName ==
    \A id \in Ids :
        /\ \A ns \in Namespaces :
              (\E doc \in Documents : <<doc, id>> \in fs[ns])
                  => ns = request[id].project_name
        /\ ("finalize" \in Range(calls[id]) /\ id \notin deleted)
              => raised[id] # MissingDocument

\* the key of details under which the coordinator keeps a stage's artifact
ArtifactKey(stage) ==
    CASE stage = "plan" -> "project_plan"
      [] stage = "architecture" -> "architecture"
      [] stage = "frontend" -> "frontend_results"
      [] stage = "backend" -> "backend_results"
      [] stage = "ai" -> "ai_results"
      [] stage = "documentation" -> "doc_results"
      [] stage = "finalize" -> "final_report"

\* C24: whenever the status has advanced past a stage, the stage having
\* returned, that stage's artifact key is present in details; so with status
\* completed details holds the plan, architecture, frontend, backend,
\* documentation and final report artifacts, and the AI artifact exactly
\* when include_ai is true.
C24_ArtifactKeysPresent ==
    \A id \in Ids :
        /\ \A i \in 1..Len(returned[id]) : Has(id, ArtifactKey(returned[id][i]))
        /\ records[id].status = "completed" =>
              /\ \A k \in ArtifactKeys \ {"ai_results"} : Has(id, k)
              /\ Has(id, "ai_results") <=> request[id].include_ai

C24_Witness ==
    \E id \in Ids :
        /\ records[id].status = "completed"
        /\ request[id].include_ai
        /\ Has(id, "ai_results")
        /\ Has(id, "final_report")

\* C25: no partial artifact is valid: when a stage executor fails part-way
\* (a later frontend task after earlier ones wrote files, finalize after
\* writing the final report and before the summary), the failure reaches the
\* coordinator unchanged, the stage's artifact key is not in details, and the
\* stage's result document is not left in storage.
C25_NoPartialArtifact ==
    \A id \in Ids :
        StageFailed(id) =>
            /\ caught[id] = 1
            /\ registeredAtFailure[id] => records[id].details.error = raised[id]
            /\ ~Has(id, ArtifactKey(FailedStage(id)))
            /\ ~PersistedBy(fs, FailedStage(id), id)

C27_EveryRunEnds ==
    \A id \in Ids :
        Scheduled(id) ~> (records[id].status \in TerminalStatuses \/ id \in deleted)

C27_Witness ==
    \E id \in Ids :
        /\ id \in active_projects
        /\ pc[id] = "done"
        /\ records[id].status = "error"
        /\ StageFailed(id)
        /\ FailedStage(id) = "documentation"

\* ================================================= the stage executors
\* implement_frontend and implement_backend on their own, given a task list

\* tasks in a list, and words in a task description
MaxTasks == 3
MaxWords == 2

\* dict.get
Get(d, key, default) == IF key \in DOMAIN d THEN d[key] ELSE default

\* a text is the sequence of its characters
UpperCase ==
    <<"A", "B", "C", "D", "E", "F", "G", "H", "I", "J", "K", "L", "M",
      "N", "O", "P", "Q", "R", "S", "T", "U", "V", "W", "X", "Y", "Z">>

LowerCase ==
    <<"a", "b", "c", "d", "e", "f", "g", "h", "i", "j", "k", "l", "m",
      "n", "o", "p", "q", "r", "s", "t", "u", "v", "w", "x", "y", "z">>

\* str.lower
lower(text) ==
    [i \in 1..Len(text) |->
        IF \E n \in 1..26 : UpperCase[n] = text[i]
        THEN LowerCase[CHOOSE n \in 1..26 : UpperCase[n] = text[i]]
        ELSE text[i]]

\* sub in text
In(sub, text) ==
    \E i \in 0..(Len(text) - Len(sub)) : SubSeq(text, i + 1, i + Len(sub)) = sub

\* the words a description is made of
Words ==
    {<<"C", "o", "m", "p", "o", "n", "e", "n", "t">>, <<"P", "A", "G", "E">>, <<"s", "t", "y", "l", "e">>, <<"S", "e", "r", "v", "i", "c", "e">>, <<"A", "P", "I">>,
     <<"l", "o", "g", "i", "n">>, <<"r", "a", "p", "i", "d">>, <<"h", "o", "m", "e", "p", "a", "g", "e">>}

RECURSIVE Phrases(_)
Phrases(n) ==
    IF n = 1 THEN Words
    ELSE Phrases(n - 1) \cup
         {p \o <<" ">> \o w : p \in Phrases(n - 1), w \in Words}

Descriptions == {<<>>} \cup Phrases(MaxWords)

\* the null of a plan, in Python None: a value that is no text
None == <<"None">>

\* the priorities a plan may give a task, the key being left out at times
Priorities == {"high", "medium", "low", "High", "urgent"}

Task(i, priority) ==
    IF priority = Absent THEN [task_id |-> i]
    ELSE [k \in {"task_id", "priority"} |->
             IF k = "task_id" THEN i ELSE priority]

\* task lists that differ in their priorities
PrioritisedLists ==
    UNION {{[i \in 1..n |-> Task(i, f[i])] : f \in [1..n -> Priorities \cup {Absent}]} :
              n \in 0..MaxTasks}

\* and one-task lists that differ in the description
DescribedLists ==
    {<<[k \in {"task_id", "description"} |-> IF k = "task_id" THEN 1 ELSE d]>> :
        d \in Descriptions \cup {None}}

TaskLists == PrioritisedLists \cup DescribedLists

\* fault: a priority the map does not know is put last
priority_map_unknown_last(priority) ==
    CASE priority = "high" -> 0
      [] priority = "medium" -> 1
      [] OTHER -> 2

\* frontend.py 64 and 67, backend.py 64 and 67: priority_map.get(priority, 1)
priority_map(priority) ==
    CASE priority = "high" -> 0
      [] priority = "medium" -> 1
      [] priority = "low" -> 2
      [] OTHER -> 1

\* frontend.py 67, backend.py 67: the key sorted() is given
SortKey(task) == priority_map(Get(task, "priority", "medium"))

\* sorted(): a stable sort, here by insertion from the left
RECURSIVE InsertByKey(_, _)
InsertByKey(task, list) ==
    IF list = <<>> THEN <<task>>
    ELSE IF SortKey(Head(list)) <= SortKey(task)
         THEN <<Head(list)>> \o InsertByKey(task, Tail(list))
         ELSE <<task>> \o list

RECURSIVE sorted(_)
sorted(list) ==
    IF list = <<>> THEN <<>>
    ELSE InsertByKey(list[Len(list)], sorted(SubSeq(list, 1, Len(list) - 1)))

\* fault: pages are looked for before components
RoutePageFirst(description) ==
    LET d == lower(description)
    IN IF In(<<"p", "a", "g", "e">>, d) THEN "_generate_page"
       ELSE IF In(<<"c", "o", "m", "p", "o", "n", "e", "n", "t">>, d) THEN "_generate_component"
       ELSE IF In(<<"s", "t", "y", "l", "e">>, d) THEN "_generate_styles"
       ELSE IF In(<<"s", "e", "r", "v", "i", "c", "e">>, d) \/ In(<<"a", "p", "i">>, d) THEN "_generate_service"
       ELSE "_generate_generic_files"

\* frontend.py 98-111: the generator _process_task hands the task to
Route(description) ==
    LET d == lower(description)
    IN IF In(<<"c", "o", "m", "p", "o", "n", "e", "n", "t">>, d) THEN "_generate_component"
       ELSE IF In(<<"p", "a", "g", "e">>, d) THEN "_generate_page"
       ELSE IF In(<<"s", "t", "y", "l", "e">>, d) THEN "_generate_styles"
       ELSE IF In(<<"s", "e", "r", "v", "i", "c", "e">>, d) \/ In(<<"a", "p", "i">>, d) THEN "_generate_service"
       ELSE "_generate_generic_files"

\* frontend.py 71-75: the entry of a task in completed_tasks; a key the task
\* lacks stands for the None task.get returns
CompletedEntry(task, result) ==
    [k \in (DOMAIN task \cap {"task_id", "description"}) \cup {"result"} |->
        IF k = "result" THEN result ELSE task[k]]

\* what backend._process_task may return: nothing, or a result
BackendResults == {"{}", "result"}

\* a failure of the model call or of the storage inside a generator
GeneratorFailure == "Exception"

AgentFrame ==
    UNCHANGED <<pipeline, agent, tasks, document, wrapping, damage, normalizer_pc,
                response_text, json_string, parsed>>

\* frontend.py 57-67, backend.py 57-71: up to the loop
SortTasks ==
    /\ agent_pc = "start"
    /\ sorted_tasks' = sorted(tasks)
    /\ cursor' = 1
    /\ agent_pc' = "loop"
    /\ AgentFrame
    /\ UNCHANGED <<completed_tasks, task_results, agent_raised>>

\* frontend.py 69-77: one turn of the loop
frontend_process_task ==
    /\ agent = "frontend"
    /\ agent_pc = "loop"
    /\ cursor <= Len(sorted_tasks)
    /\ AgentFrame
    /\ UNCHANGED sorted_tasks
    /\ LET task == sorted_tasks[cursor]
           description == Get(task, "description", <<>>)
           generator == Route(description)
       IN IF description = None
          THEN \* None has no lower(): line 101 raises
               /\ agent_pc' = "raised"
               /\ agent_raised' = "AttributeError"
               /\ UNCHANGED <<task_results, completed_tasks, cursor>>
          ELSE \/ /\ task_results' = Append(task_results, generator)
                  /\ completed_tasks' = Append(completed_tasks, CompletedEntry(task, generator))
                  /\ cursor' = cursor + 1
                  /\ UNCHANGED <<agent_pc, agent_raised>>
               \/ \* the generator fails
                  /\ agent_pc' = "raised"
                  /\ agent_raised' = GeneratorFailure
                  /\ UNCHANGED <<task_results, completed_tasks, cursor>>

\* backend.py 73-78: one turn of the loop
backend_process_task ==
    /\ agent = "backend"
    /\ agent_pc = "loop"
    /\ cursor <= Len(sorted_tasks)
    /\ AgentFrame
    /\ UNCHANGED sorted_tasks
    /\ LET task == sorted_tasks[cursor]
       IN \/ \E task_result \in BackendResults :
                /\ task_results' = Append(task_results, task_result)
                /\ completed_tasks' =
                      IF task_result # "{}" THEN Append(completed_tasks, task)
                      ELSE completed_tasks
                /\ cursor' = cursor + 1
                /\ UNCHANGED <<agent_pc, agent_raised>>
          \/ /\ agent_pc' = "raised"
             /\ agent_raised' = GeneratorFailure
             /\ UNCHANGED <<task_results, completed_tasks, cursor>>

\* frontend.py 79-85, backend.py 80-84: after the loop
ReturnResults ==
    /\ agent_pc = "loop"
    /\ cursor > Len(sorted_tasks)
    /\ agent_pc' = "returned"
    /\ AgentFrame
    /\ UNCHANGED <<sorted_tasks, cursor, completed_tasks, task_results, agent_raised>>

InitAgents ==
    /\ InitPipeline
    /\ agent \in {"frontend", "backend"}
    /\ agent_pc = "start"
    /\ tasks \in TaskLists
    /\ sorted_tasks = <<>>
    /\ cursor = 0
    /\ completed_tasks = <<>>
    /\ task_results = <<>>
    /\ agent_raised = NoFailure
    /\ IdleNormalizer

NextAgents ==
    \/ SortTasks
    \/ frontend_process_task
    \/ backend_process_task
    \/ ReturnResults

SpecAgents == InitAgents /\ [][NextAgents]_vars

\* ------------------------------------------ properties of the executors

\* the rank the priorities are said to have
RankOf(task) ==
    IF "priority" \notin DOMAIN task THEN 1
    ELSE IF task.priority = "high" THEN 0
    ELSE IF task.priority = "low" THEN 2
    ELSE 1

\* by rank, and by place in the input among equals: the input numbers
\* its tasks 1, 2, ...
InPriorityOrder(list) ==
    \A i, j \in 1..Len(list) :
        i < j => \/ RankOf(list[i]) < RankOf(list[j])
                 \/ /\ RankOf(list[i]) = RankOf(list[j])
                    /\ list[i].task_id < list[j].task_id

\* the tasks among the first n processed whose result was not empty
RECURSIVE WithResult(_)
WithResult(n) ==
    IF n = 0 THEN <<>>
    ELSE IF task_results[n] # "{}" THEN Append(WithResult(n - 1), sorted_tasks[n])
    ELSE WithResult(n - 1)

Precedence ==
    <<[keywords |-> {<<"c", "o", "m", "p", "o", "n", "e", "n", "t">>}, generator |-> "_generate_component"],
      [keywords |-> {<<"p", "a", "g", "e">>}, generator |-> "_generate_page"],
      [keywords |-> {<<"s", "t", "y", "l", "e">>}, generator |-> "_generate_styles"],
      [keywords |-> {<<"s", "e", "r", "v", "i", "c", "e">>, <<"a", "p", "i">>}, generator |-> "_generate_service"]>>

Mentions(n, description) ==
    \E keyword \in Precedence[n].keywords : In(keyword, lower(description))

\* the generator of the first rule the description matches, or the
\* generic one
RoutedByPrecedence(description, generator) ==
    IF \E n \in 1..Len(Precedence) : Mentions(n, description)
    THEN \E n \in 1..Len(Precedence) :
            /\ Mentions(n, description)
            /\ \A m \in 1..(n - 1) : ~Mentions(m, description)
            /\ generator = Precedence[n].generator
    ELSE generator = "_generate_generic_files"

\* the tasks the frontend has handled went to the generator of highest
\* precedence
C30_HandledByPrecedence ==
    agent = "frontend" =>
        \A i \in 1..Len(completed_tasks) :
            RoutedByPrecedence(Get(sorted_tasks[i], "description", <<>>),
                               completed_tasks[i].result)

\* C30: the frontend routes every task to exactly one generator, the
\* first in the precedence component, page, style, service or api that
\* its description matches without regard to case, else the generic one;
\* the routing is total: no task is left without a generator.
C30_EveryTaskRouted ==
    /\ C30_HandledByPrecedence
    /\ agent = "frontend" => agent_raised # "AttributeError"

\* ------------------------------------------------- the response normalizer
\*
\* core/utils.py is not among the sources: clean_json_string and
\* parse_json_string are modelled from section 4.2 of the specification. A
\* text is the sequence of its tokens.

MaxNesting == 2

Atoms == {"1", "2"}
Atom(a) == [atom |-> a]
Array(items) == [items |-> items]

\* the documents: arrays, of up to two members, of numbers and of arrays
RECURSIVE Arrays(_)
Arrays(nesting) ==
    LET members == IF nesting = 1 THEN {Atom(a) : a \in Atoms}
                   ELSE {Atom(a) : a \in Atoms} \cup Arrays(nesting - 1)
    IN {Array(items) : items \in UNION {[1..n -> members] : n \in 0..2}}

StructuredDocuments == Arrays(MaxNesting)

\* the text of a document
RECURSIVE Text(_)
RECURSIVE ItemsText(_)
Text(d) ==
    IF "atom" \in DOMAIN d THEN <<d.atom>>
    ELSE <<"[">> \o ItemsText(d.items) \o <<"]">>

ItemsText(items) ==
    IF items = <<>> THEN <<>>
    ELSE IF Len(items) = 1 THEN Text(items[1])
    ELSE Text(items[1]) \o <<",">> \o ItemsText(Tail(items))

\* the delimiter of a fenced block, three backquotes, written with tildes
Fence == "~~~"
TypeTags == {"json"}
Whitespace == {" ", "\n"}
LeadingProse == <<"Here", " ", "it", " ", "is", ":", "\n">>
TrailingProse == <<"\n", "Done", ".">>

Fenced(text) == <<Fence, "\n">> \o text \o <<"\n", Fence>>
Tagged(text) == <<Fence, "json", "\n">> \o text \o <<"\n", Fence>>

Wrappings ==
    {"none", "generic", "tagged", "prose", "tagged in prose", "two layers", "unclosed"}

Wrap(kind, text) ==
    CASE kind = "none" -> text
      [] kind = "generic" -> Fenced(text)
      [] kind = "tagged" -> Tagged(text)
      [] kind = "prose" -> LeadingProse \o Fenced(text) \o TrailingProse
      [] kind = "tagged in prose" -> LeadingProse \o Tagged(text) \o TrailingProse
      [] kind = "two layers" -> Fenced(Tagged(text))
      [] kind = "unclosed" -> <<Fence, "\n">> \o text

\* what a response may have done to the text of its document
Damages == {"none", "truncated", "trailing comma"}

Damaged(kind, text) ==
    CASE kind = "none" -> text
      [] kind = "truncated" -> SubSeq(text, 1, Len(text) - 1)
      [] kind = "trailing comma" ->
            SubSeq(text, 1, Len(text) - 1) \o <<",", text[Len(text)]>>

\* str.strip()
RECURSIVE strip(_)
strip(text) ==
    IF text = <<>> THEN text
    ELSE IF Head(text) \in Whitespace THEN strip(Tail(text))
    ELSE IF text[Len(text)] \in Whitespace THEN strip(SubSeq(text, 1, Len(text) - 1))
    ELSE text

FencePositions(text) == {i \in 1..Len(text) : text[i] = Fence}

Min(S) == CHOOSE x \in S : \A y \in S : x <= y
Max(S) == CHOOSE x \in S : \A y \in S : x >= y

\* fault: the type tag is left in front of the content
clean_json_string_keeping_tag(text) ==
    LET fences == FencePositions(text)
    IN IF Cardinality(fences) < 2 THEN strip(text)
       ELSE strip(SubSeq(text, Min(fences) + 1, Max(fences) - 1))

\* the content between the first fence and the last one, less a type tag,
\* trimmed; a text without a pair of fences is only trimmed
clean_json_string(text) ==
    LET fences == FencePositions(text)
        opening == Min(fences)
        closing == Max(fences)
        first == IF opening + 1 < closing /\ text[opening + 1] \in TypeTags
                 THEN opening + 2 ELSE opening + 1
    IN IF Cardinality(fences) < 2 THEN strip(text)
       ELSE strip(SubSeq(text, first, closing - 1))

MalformedResponseError == [error |-> "MalformedResponseError"]
NoValue == [error |-> "no value"]

\* the value that starts at position i of the text, and where it ends
RECURSIVE ParseValue(_, _)
RECURSIVE ParseItems(_, _, _)
ParseValue(text, i) ==
    IF i > Len(text) THEN NoValue
    ELSE IF text[i] \in Atoms THEN [value |-> Atom(text[i]), next |-> i + 1]
    ELSE IF text[i] = "["
         THEN IF i + 1 <= Len(text) /\ text[i + 1] = "]"
              THEN [value |-> Array(<<>>), next |-> i + 2]
              ELSE ParseItems(text, i + 1, <<>>)
    ELSE NoValue

ParseItems(text, i, items) ==
    LET item == ParseValue(text, i)
    IN IF item = NoValue THEN NoValue
       ELSE IF item.next > Len(text) THEN NoValue
       ELSE IF text[item.next] = ","
            THEN ParseItems(text, item.next + 1, Append(items, item.value))
       ELSE IF text[item.next] = "]"
            THEN [value |-> Array(Append(items, item.value)), next |-> item.next + 1]
       ELSE NoValue

\* the document the text is the text of, white space apart, or the failure
parse_json_string(text) ==
    LET tokens == SelectSeq(text, LAMBDA token : token \notin Whitespace)
        result == ParseValue(tokens, 1)
    IN IF result = NoValue THEN MalformedResponseError
       ELSE IF result.next # Len(tokens) + 1 THEN MalformedResponseError
       ELSE result.value

NormalizerFrame ==
    UNCHANGED <<pipeline, agent, agent_pc, tasks, sorted_tasks, cursor,
                completed_tasks, task_results, agent_raised,
                document, wrapping, damage, response_text>>

\* project_manager.py 129, 309, 372
CleanJsonString ==
    /\ normalizer_pc = "response"
    /\ json_string' = clean_json_string(response_text)
    /\ normalizer_pc' = "cleaned"
    /\ UNCHANGED parsed
    /\ NormalizerFrame

\* project_manager.py 130, 310, 373
ParseJsonString ==
    /\ normalizer_pc = "cleaned"
    /\ parsed' = parse_json_string(json_string)
    /\ normalizer_pc' = "parsed"
    /\ UNCHANGED json_string
    /\ NormalizerFrame

\* the model has answered: the text of a document, damaged or not, wrapped
InitNormalizer ==
    /\ InitPipeline
    /\ agent = Absent
    /\ agent_pc = "idle"
    /\ tasks = <<>>
    /\ sorted_tasks = <<>>
    /\ cursor = 0
    /\ completed_tasks = <<>>
    /\ task_results = <<>>
    /\ agent_raised = NoFailure
    /\ document \in StructuredDocuments
    /\ wrapping \in Wrappings
    /\ damage \in Damages
    /\ normalizer_pc = "response"
    /\ response_text = Wrap(wrapping, Damaged(damage, Text(document)))
    /\ json_string = <<>>
    /\ parsed = Absent

NextNormalizer ==
    \/ CleanJsonString
    \/ ParseJsonString

SpecNormalizer == InitNormalizer /\ [][NextNormalizer]_vars

\* C26: the text of any document, given bare, in a fence, in a fence with a
\* type tag, or in a fence between prose, is normalized to the document;
\* one layer of fences is stripped and no more; a text that is not the
\* text of a document fails with MalformedResponseError and is not repaired.
C26_NormalizerRoundTrip ==
    /\ normalizer_pc \in {"cleaned", "parsed"} /\ wrapping = "two layers" =>
          json_string = Tagged(Damaged(damage, Text(document)))
    /\ normalizer_pc = "parsed" =>
          IF damage = "none" /\ wrapping \in {"none", "generic", "tagged", "prose", "tagged in prose"}
          THEN parsed = document
          ELSE parsed = MalformedResponseError

\* a nested document came back from a tagged fence between prose
C26_Witness ==
    /\ normalizer_pc = "parsed"
    /\ wrapping = "tagged in prose"
    /\ damage = "none"
    /\ parsed = document
    /\ \E i \in 1..Len(document.items) : "items" \in DOMAIN document.items[i]

====
